---- MODULE Spec2Model ----
(***************************************************************************)
(* A model of generate_data.py: the DMI reader (parse_hardware), the       *)
(* lspci -nnvmm parser (parse_lspci_output), the vendor resolver           *)
(* (lookup_vendor) and the control flow of main and _exit.                 *)
(*                                                                         *)
(* Python strings are sequences of one-character strings, so that          *)
(* lower(), strip(), split(), slicing and the bracketed-ID regex are       *)
(* computed and not assumed.  A Python dict with dynamic keys (a device, a *)
(* group wrapper) is a function whose domain is the set of its keys.       *)
(***************************************************************************)
EXTENDS Integers, Sequences, FiniteSets, TLC

VARIABLES
    pc,         \* position of the running function
    args,       \* argparse namespace: data, file, dry_run
    dmi,        \* /sys/devices/virtual/dmi/id: file name -> content (or absent)
    input,      \* the raw key and value of the line under test (SpecLine)
    lines,      \* output.split("\n") of the lspci text
    lineno,     \* index of the next line of the for loop
    devices,    \* parse_lspci_output: in-progress group wrapper
    device,     \* parse_lspci_output: in-progress device
    hardware,   \* the hardware record / the structure being filled
    prior,      \* structure["groups"] as the first parse returned them
    reparsed,   \* TRUE once the same structure is parsed a second time
    ERRORS,     \* the module-level error accumulator
    calls,      \* sysfs, network and console events, in order
    resp,       \* what the remote end answered, in order
    exitcode,   \* argument of sys.exit, -1 while running
    loaded      \* the hardware record as main first obtained it

vars == <<pc, args, dmi, input, lines, lineno, devices, device, hardware,
          prior, reparsed, ERRORS, calls, resp, exitcode, loaded>>

\* what parse_lspci_output never touches
mainVars == <<args, dmi, ERRORS, calls, resp, exitcode, loaded>>
\* the locals of parse_lspci_output
lspciVars == <<input, lineno, devices, device, prior, reparsed>>

----------------------------------------------------------------------------
(* Bounds of the explored inputs *)

MaxLines == 5
MaxValLen == 7

----------------------------------------------------------------------------
(* Python values *)

None == [kind |-> "none"]
Str(s) == [kind |-> "str", s |-> s]
VendorDict(n, v) == [kind |-> "dict", name |-> n, vendorid |-> v]
List(l) == [kind |-> "list", items |-> l]
EmptyDict == <<>>

\* dict.update({k: v})
Update(d, k, v) == [y \in (DOMAIN d) \cup {k} |-> IF y = k THEN v ELSE d[y]]

\* dict.get(k): None when the key is missing
Get(d, k) == IF k \in DOMAIN d THEN d[k] ELSE None

----------------------------------------------------------------------------
(* str methods *)

Uppers == <<"A","B","C","D","E","F","G","H","I","J","K","L","M",
            "N","O","P","Q","R","S","T","U","V","W","X","Y","Z">>
Lowers == <<"a","b","c","d","e","f","g","h","i","j","k","l","m",
            "n","o","p","q","r","s","t","u","v","w","x","y","z">>
Digits == {"0","1","2","3","4","5","6","7","8","9"}

Range(s) == {s[i] : i \in DOMAIN s}

LowerChar(c) ==
    IF \E i \in DOMAIN Uppers : Uppers[i] = c
    THEN Lowers[CHOOSE i \in DOMAIN Uppers : Uppers[i] = c]
    ELSE c

\* str.lower()
Lower(s) == [i \in DOMAIN s |-> LowerChar(s[i])]

\* regex classes \w and \s
IsWord(c) == c \in Range(Uppers) \cup Range(Lowers) \cup Digits \cup {"_"}
IsSpace(c) == c \in {" ", "\t", "\n", "\r", "\f"}

\* str.endswith / str.startswith
EndsWith(s, t) ==
    /\ Len(s) >= Len(t)
    /\ SubSeq(s, Len(s) - Len(t) + 1, Len(s)) = t
StartsWith(s, t) ==
    /\ Len(s) >= Len(t)
    /\ SubSeq(s, 1, Len(t)) = t

\* s[-n:] and s[:-n]
LastN(s, n) == IF Len(s) <= n THEN s ELSE SubSeq(s, Len(s) - n + 1, Len(s))
DropLastN(s, n) == IF Len(s) <= n THEN <<>> ELSE SubSeq(s, 1, Len(s) - n)

\* str.replace(c, "")
Remove(s, c) == SelectSeq(s, LAMBDA x : x # c)

\* str.strip(chars)
RECURSIVE LStrip(_, _)
LStrip(s, chars) ==
    IF s # <<>> /\ Head(s) \in chars THEN LStrip(Tail(s), chars) ELSE s
RECURSIVE RStrip(_, _)
RStrip(s, chars) ==
    IF s # <<>> /\ s[Len(s)] \in chars
    THEN RStrip(SubSeq(s, 1, Len(s) - 1), chars)
    ELSE s
Strip(s, chars) == RStrip(LStrip(s, chars), chars)

\* str.split(sep, 1): one part when sep does not occur, else two
Split1(s, sep) ==
    IF \E i \in DOMAIN s : s[i] = sep
    THEN LET i == CHOOSE j \in DOMAIN s :
                      s[j] = sep /\ \A k \in 1..(j - 1) : s[k] # sep
         IN <<SubSeq(s, 1, i - 1), SubSeq(s, i + 1, Len(s))>>
    ELSE <<s>>

----------------------------------------------------------------------------
(* parse_lspci_output *)

K_devices == <<"d","e","v","i","c","e","s">>
K_iommugroup == <<"i","o","m","m","u","g","r","o","u","p">>
K_class == <<"c","l","a","s","s">>
K_dev_class == <<"d","e","v","_","c","l","a","s","s">>
K_vendor == <<"v","e","n","d","o","r">>

\* the length a value must exceed, the width of "[xxxx]", and of " [xxxx]"
IdMinLen == 6
IdWidth == 6
IdCut == 7
IdDigits == 4

\* re.compile(r"\[[\s\w]{4}\]").match(s)
RegexIdMatch(s) ==
    /\ Len(s) >= IdDigits + 2
    /\ s[1] = "["
    /\ \A i \in 2..(IdDigits + 1) : IsSpace(s[i]) \/ IsWord(s[i])
    /\ s[IdDigits + 2] = "]"

\* a fresh {"devices": [], "iommugroup": None}
NewWrapper == Update(Update(EmptyDict, K_devices, List(<<>>)), K_iommugroup, None)

\* the python condition len(value) > 6
ValueLongEnoughBug(value) == Len(value) >= IdMinLen
ValueLongEnough(value) == Len(value) > IdMinLen

\* the value stored for key: the scalar, or the vendor sub-record
StoredValue(key, value) ==
    IF ValueLongEnough(value) /\ EndsWith(key, K_vendor)
       /\ RegexIdMatch(LastN(value, IdWidth))
    THEN VendorDict(DropLastN(value, IdCut),
                    Strip(LastN(value, IdWidth), {"[", "]"}))
    ELSE Str(value)

\* class translated to dev_class
JsonKey(rawkey) ==
    LET key == Lower(rawkey) IN IF key = K_class THEN K_dev_class ELSE key

\* group["devices"].append(device)
AppendDevice(group, dev) ==
    Update(group, K_devices, List(Append(group[K_devices].items, dev)))

\* any(g.get("iommugroup") == devices["iommugroup"] for g in groups)
GroupKnown(groups, wrapper) ==
    \E i \in DOMAIN groups :
        Get(groups[i], K_iommugroup) = wrapper[K_iommugroup]

\* the branch taken at a blank line when the device holds fields
Emit(st) ==
    IF ~GroupKnown(st.groups, st.devices)
    THEN [st EXCEPT !.groups = Append(@, AppendDevice(st.devices, st.device)),
                    !.devices = NewWrapper,
                    !.device = EmptyDict]
    ELSE [st EXCEPT !.groups =
                        [i \in DOMAIN @ |->
                            IF @[i][K_iommugroup] = st.devices[K_iommugroup]
                            THEN AppendDevice(@[i], st.device)
                            ELSE @[i]],
                    !.devices = NewWrapper,
                    !.device = EmptyDict]

\* the "hack to skip adding empty devices"
SkipEmptyAlways(dev) == FALSE
SkipEmpty(dev) == dev = EmptyDict

\* one iteration of "for line in output.split('\n')"
LoopBody(line, st) ==
    IF line # <<>>
    THEN LET parts == Split1(Remove(line, "\t"), ":")
         IN IF Len(parts) < 2
            THEN [st EXCEPT !.raised = TRUE]       \* line[1]: IndexError
            ELSE LET key == JsonKey(parts[1])
                     value == parts[2]
                 IN IF StartsWith(key, K_iommugroup)
                    THEN [st EXCEPT !.devices = Update(@, key, Str(value))]
                    ELSE [st EXCEPT !.device =
                                        Update(@, key, StoredValue(key, value))]
    ELSE IF SkipEmpty(st.device) THEN st ELSE Emit(st)

\* the whole function, from line i on
RECURSIVE ParseFrom(_, _, _)
ParseFrom(ls, i, st) ==
    IF i > Len(ls) \/ st.raised THEN st
    ELSE ParseFrom(ls, i + 1, LoopBody(ls[i], st))

ParseStart(groups) ==
    [devices |-> NewWrapper, device |-> EmptyDict, groups |-> groups,
     raised |-> FALSE]

parse_lspci_output(ls, structure) == ParseFrom(ls, 1, ParseStart(structure.groups))

----------------------------------------------------------------------------
(* lspci texts *)

L_blank == <<>>
L_group4 == <<"I","O","M","M","U","G","r","o","u","p",":","\t","4">>
L_group5 == <<"I","O","M","M","U","G","r","o","u","p",":","\t","5">>
L_slot == <<"S","l","o","t",":","\t","0","0",":","1","f",".","3">>
L_vendor == <<"V","e","n","d","o","r",":","\t","I","n","t","e","l"," ",
              "[","8","0","8","6","]">>
L_noise == <<"l","s","p","c","i"," ","?">>

LineKinds == {L_blank, L_group4, L_group5, L_slot, L_vendor, L_noise}

Texts == UNION {[1..n -> LineKinds] : n \in 1..MaxLines}

RawKeys == {<<"S","V","e","n","d","o","r">>,
            <<"D","e","v","i","c","e">>,
            <<"C","l","a","s","s">>}
ValueChars == {"[", "]", "8", " "}
RawValues == UNION {[1..n -> ValueChars] : n \in 0..MaxValLen}

MkLine(k, v) == k \o <<":", "\t">> \o v

----------------------------------------------------------------------------
(* values of the variables a specification does not use *)

NoArgs == [data |-> FALSE, file |-> FALSE, dry_run |-> FALSE]
NoInput == [key |-> <<>>, value |-> <<>>]

IdleMain ==
    /\ args = NoArgs
    /\ dmi = <<>>
    /\ ERRORS = <<>>
    /\ calls = <<>>
    /\ resp = <<>>
    /\ exitcode = -1
    /\ loaded = <<>>

----------------------------------------------------------------------------
(* parse_lspci_output as a state machine over the lines *)

InitLspci ==
    /\ pc = "parse"
    /\ lines \in Texts
    /\ input = NoInput
    /\ lineno = 1
    /\ devices = NewWrapper
    /\ device = EmptyDict
    /\ hardware = [groups |-> <<>>]
    /\ prior = <<>>
    /\ reparsed = FALSE
    /\ IdleMain

InitLine ==
    /\ pc = "parse"
    /\ input \in [key : RawKeys, value : RawValues]
    /\ lines = <<MkLine(input.key, input.value)>>
    /\ lineno = 1
    /\ devices = NewWrapper
    /\ device = EmptyDict
    /\ hardware = [groups |-> <<>>]
    /\ prior = <<>>
    /\ reparsed = FALSE
    /\ IdleMain

ParseLine ==
    /\ pc = "parse"
    /\ lineno <= Len(lines)
    /\ LET st == LoopBody(lines[lineno],
                          [devices |-> devices, device |-> device,
                           groups |-> hardware.groups, raised |-> FALSE])
       IN /\ devices' = st.devices
          /\ device' = st.device
          /\ hardware' = [hardware EXCEPT !.groups = st.groups]
          /\ pc' = IF st.raised THEN "raised" ELSE "parse"
          /\ lineno' = IF st.raised THEN lineno ELSE lineno + 1
    /\ UNCHANGED <<input, lines, prior, reparsed>>
    /\ UNCHANGED mainVars

ParseReturn ==
    /\ pc = "parse"
    /\ lineno > Len(lines)
    /\ pc' = "returned"
    /\ prior' = IF reparsed THEN prior ELSE hardware.groups
    /\ UNCHANGED <<input, lines, lineno, devices, device, hardware, reparsed>>
    /\ UNCHANGED mainVars

\* the returned structure is handed to parse_lspci_output again, same text
Reparse ==
    /\ pc = "returned"
    /\ ~reparsed
    /\ reparsed' = TRUE
    /\ pc' = "parse"
    /\ lineno' = 1
    /\ devices' = NewWrapper
    /\ device' = EmptyDict
    /\ UNCHANGED <<input, lines, hardware, prior>>
    /\ UNCHANGED mainVars

NextLspci == ParseLine \/ ParseReturn \/ Reparse

SpecLspci == InitLspci /\ [][NextLspci]_vars
NextLine == ParseLine \/ ParseReturn

SpecLine == InitLine /\ [][NextLine]_vars

----------------------------------------------------------------------------
(* The input text read as blank-line-delimited records *)

\* the maximal runs of non-blank lines of ls that a blank line follows
RECURSIVE Runs(_, _, _, _)
Runs(ls, i, cur, acc) ==
    IF i > Len(ls) THEN acc
    ELSE IF ls[i] = <<>>
         THEN Runs(ls, i + 1, <<>>, IF cur = <<>> THEN acc ELSE Append(acc, cur))
         ELSE Runs(ls, i + 1, Append(cur, ls[i]), acc)

TerminatedRecords(ls) == Runs(ls, 1, <<>>, <<>>)
\* all records, the last one terminated or not
AllRecords(ls) == Runs(Append(ls, <<>>), 1, <<>>, <<>>)

LineKey(l) == JsonKey(Split1(Remove(l, "\t"), ":")[1])
LineValue(l) == Split1(Remove(l, "\t"), ":")[2]
IsGroupLine(l) == StartsWith(LineKey(l), K_iommugroup)
IsFieldLine(l) == ~IsGroupLine(l)
HasFields(r) == \E i \in DOMAIN r : IsFieldLine(r[i])

\* the IOMMUGroup value a record carries, None when it carries none
RecordGroup(r) ==
    LET G == {i \in DOMAIN r : LineKey(r[i]) = K_iommugroup}
    IN IF G = {} THEN None
       ELSE Str(LineValue(r[CHOOSE i \in G : \A j \in G : j <= i]))

\* the device a record describes
RECURSIVE RecordDevice(_)
RecordDevice(r) ==
    IF r = <<>> THEN EmptyDict
    ELSE LET l == r[Len(r)]
             d == RecordDevice(SubSeq(r, 1, Len(r) - 1))
         IN IF IsGroupLine(l) THEN d
            ELSE Update(d, LineKey(l), StoredValue(LineKey(l), LineValue(l)))

EmittedRecords(ls) == SelectSeq(TerminatedRecords(ls), HasFields)

\* the devices of the records that carry group value g, in input order
RecordsOfGroup(ls, g) ==
    LET rs == SelectSeq(EmittedRecords(ls), LAMBDA r : RecordGroup(r) = g)
    IN [i \in DOMAIN rs |-> RecordDevice(rs[i])]

RECURSIVE TotalDevices(_)
TotalDevices(groups) ==
    IF groups = <<>> THEN 0
    ELSE Len(Head(groups)[K_devices].items) + TotalDevices(Tail(groups))

NoDuplicateDevice(groups) ==
    \A g \in DOMAIN groups :
        LET ds == groups[g][K_devices].items
        IN \A i, j \in DOMAIN ds : i # j => ds[i] # ds[j]

----------------------------------------------------------------------------
(* Claims about parse_lspci_output *)

\* C1: started on an empty groups list, after the parse no two groups carry
\* the same iommugroup value, every emitted device sits in the one group
\* whose iommugroup is the IOMMUGroup value of its record, and the devices
\* of a group are in the order of their records in the input.
C1_GroupingAsClaimed ==
    (pc = "returned" /\ ~reparsed) =>
        LET gs == hardware.groups
        IN /\ \A i, j \in DOMAIN gs :
                  i # j => gs[i][K_iommugroup] # gs[j][K_iommugroup]
           /\ \A i \in DOMAIN gs :
                  gs[i][K_devices].items = RecordsOfGroup(lines, gs[i][K_iommugroup])
           /\ \A k \in DOMAIN EmittedRecords(lines) :
                  \E i \in DOMAIN gs :
                      gs[i][K_iommugroup] = RecordGroup(EmittedRecords(lines)[k])

\* C2: a key/value line that is not an iommugroup line stores the sub-record
\* {name: value without its last 7 characters, vendorid: the 4 characters
\* between the brackets} exactly when the lower-cased key ends in "vendor",
\* the value is longer than 6 characters and its last 6 characters are
\* "[" + 4 word/space characters + "]"; otherwise the unchanged scalar.
C2_VendorSplit ==
    (lineno = 2) =>
        LET k == input.key
            v == input.value
            n == Len(v)
            split == /\ EndsWith(Lower(k), K_vendor)
                     /\ n > 6
                     /\ v[n - 5] = "[" /\ v[n] = "]"
                     /\ \A i \in (n - 4)..(n - 1) : IsWord(v[i]) \/ IsSpace(v[i])
        IN /\ DOMAIN device = {JsonKey(k)}
           /\ device[JsonKey(k)] =
                  IF split
                  THEN VendorDict(SubSeq(v, 1, n - 7), SubSeq(v, n - 4, n - 1))
                  ELSE Str(v)

C2_Witness ==
    /\ lineno = 2
    /\ Len(input.value) = 7
    /\ \E k \in DOMAIN device : device[k].kind = "dict"

\* C3: when the structure already holds the groups of a prior parse of the
\* same text, no group's devices list holds the same device record more than
\* once after the second parse.
C3_ReparseNoDuplicates ==
    (pc = "returned" /\ reparsed /\ NoDuplicateDevice(prior)) =>
        NoDuplicateDevice(hardware.groups)

\* C10: a device is appended only at the empty line that follows its record:
\* at every point of the first parse the number of devices in the structure is
\* the number of records with a non-iommugroup field that an empty line
\* follows in the lines read so far; when the text ends with a line
\* terminator every record with such a field is emitted; runs of empty lines
\* add no device and no group.
C10_RecordCompleteness ==
    (pc \in {"parse", "returned"} /\ ~reparsed) =>
        LET read == SubSeq(lines, 1, lineno - 1)
        IN /\ TotalDevices(hardware.groups) = Len(EmittedRecords(read))
           /\ \A g \in DOMAIN hardware.groups :
                  hardware.groups[g][K_devices].items # <<>>
           /\ (pc = "returned" /\ lines[Len(lines)] = <<>>) =>
                  TotalDevices(hardware.groups)
                      = Len(SelectSeq(AllRecords(lines), HasFields))

C10_Witness ==
    /\ pc = "returned" /\ ~reparsed
    /\ TotalDevices(hardware.groups) = 2
    /\ Len(hardware.groups) = 1
    /\ \E i \in 1..(Len(lines) - 1) : lines[i] = <<>> /\ lines[i + 1] = <<>>

----------------------------------------------------------------------------
(* parse_hardware *)

UNKNOWN == <<"_","_","u","n","k","n","o","w","n","_","_">>
NONE_ == <<"_","n","o","n","e","_">>
Whitespace == {" ", "\t", "\n", "\r", "\f"}

\* the content of a file that does not exist
Absent == <<"<no such file>">>

\* the defaults parse_hardware starts from
DefaultHardware ==
    [board |-> [name |-> UNKNOWN,
                board_vendor |-> [name |-> NONE_, vendorid |-> <<>>],
                version |-> UNKNOWN],
     bios |-> [date |-> <<>>,
               release |-> <<>>,
               bios_vendor |-> [name |-> NONE_, vendorid |-> <<>>],
               version |-> UNKNOWN],
     chassis |-> [type |-> <<>>],
     product |-> [family |-> <<>>, name |-> <<>>],
     groups |-> <<>>]

\* key.endswith("vendor"), over the declared keys
IsVendorKey(key) == key \in {"board_vendor", "bios_vendor"}

\* key if key.endswith("vendor") else f"{device}_{key}", as the parts joined by "_"
FilePath(section, key) == IF IsVendorKey(key) THEN <<key>> ELSE <<section, key>>

IsFile(d, path) == path \in DOMAIN d /\ d[path] # Absent

\* digits of the date formats
DigitSeq == <<"0","1","2","3","4","5","6","7","8","9">>
IsDigit(c) == \E i \in DOMAIN DigitSeq : DigitSeq[i] = c
DigitVal(c) == (CHOOSE i \in DOMAIN DigitSeq : DigitSeq[i] = c) - 1
DigitChar(n) == DigitSeq[n + 1]

RECURSIVE Number(_)
Number(s) == IF s = <<>> THEN 0 ELSE 10 * Number(SubSeq(s, 1, Len(s) - 1)) + DigitVal(s[Len(s)])

\* str.split(sep)
RECURSIVE SplitAll(_, _)
SplitAll(s, sep) ==
    LET parts == Split1(s, sep)
    IN IF Len(parts) = 1 THEN parts ELSE <<parts[1]>> \o SplitAll(parts[2], sep)

IsLeap(y) == (y % 4 = 0 /\ y % 100 # 0) \/ y % 400 = 0
DaysIn(m, y) ==
    IF m = 2 THEN (IF IsLeap(y) THEN 29 ELSE 28)
    ELSE IF m \in {4, 6, 9, 11} THEN 30 ELSE 31

\* %m: 1[0-2]|0[1-9]|[1-9]   %d: 3[01]|[12]\d|0[1-9]|[1-9]| [1-9]   %Y: \d\d\d\d
MonthText(s) ==
    /\ Len(s) \in {1, 2} /\ \A i \in DOMAIN s : IsDigit(s[i])
    /\ Number(s) \in 1..12
DayText(s) ==
    \/ /\ Len(s) \in {1, 2} /\ \A i \in DOMAIN s : IsDigit(s[i])
       /\ Number(s) \in 1..31
    \/ /\ Len(s) = 2 /\ s[1] = " " /\ IsDigit(s[2]) /\ Number(<<s[2]>>) \in 1..9
YearText(s) == Len(s) = 4 /\ \A i \in DOMAIN s : IsDigit(s[i])
DayNumber(s) == IF s[1] = " " THEN Number(<<s[2]>>) ELSE Number(s)

\* datetime.strptime(data, "%m/%d/%Y") succeeds
DateParses(data) ==
    LET parts == SplitAll(data, "/")
    IN /\ Len(parts) = 3
       /\ MonthText(parts[1]) /\ DayText(parts[2]) /\ YearText(parts[3])
       /\ Number(parts[3]) >= 1
       /\ DayNumber(parts[2]) <= DaysIn(Number(parts[1]), Number(parts[3]))

TwoDigits(n) == <<DigitChar(n \div 10), DigitChar(n % 10)>>

\* strptime(data, "%m/%d/%Y").strftime("%Y-%m-%d")
NormalDate(data) ==
    LET parts == SplitAll(data, "/")
    IN parts[3] \o <<"-">> \o TwoDigits(Number(parts[1])) \o <<"-">>
           \o TwoDigits(DayNumber(parts[2]))

\* f.read().strip() when the file exists, "" otherwise
FileDataUnstripped(d, path) == IF IsFile(d, path) THEN d[path] ELSE <<>>
FileData(d, path) == IF IsFile(d, path) THEN Strip(d[path], Whitespace) ELSE <<>>

\* "if data := f.read().strip()": only non-empty data replaces the default
DataReplaces(data) == data # <<>>

\* what the loop leaves in hardware[section][key]
FieldValue(d, section, key, default) ==
    LET data == FileData(d, FilePath(section, key))
    IN IF ~DataReplaces(data) THEN default
       ELSE IF IsVendorKey(key) THEN [default EXCEPT !.name = data]
       ELSE IF key = "date" THEN NormalDate(data)
       ELSE data

\* strptime raises ValueError for some field named date
HardwareRaises(d) ==
    \E section \in (DOMAIN DefaultHardware) \ {"groups"} :
        /\ "date" \in DOMAIN DefaultHardware[section]
        /\ FileData(d, FilePath(section, "date")) # <<>>
        /\ ~DateParses(FileData(d, FilePath(section, "date")))

\* the record after "parse the bios and board data"
ReadAll(d) ==
    [section \in DOMAIN DefaultHardware |->
        IF section = "groups" THEN DefaultHardware[section]
        ELSE [key \in DOMAIN DefaultHardware[section] |->
                 FieldValue(d, section, key, DefaultHardware[section][key])]]

\* chassis types of laptops and portable devices
LaptopTypesBug == {<<"8">>, <<"9">>}
LaptopTypes == {<<"8">>, <<"9">>, <<"1","0">>}

\* update name for laptops and portable devices
LaptopOverride(hw) ==
    IF hw.chassis.type \in LaptopTypes
    THEN LET named == [hw EXCEPT !.board.name =
                           hw.product.name \o <<" ">> \o <<"(">>
                               \o hw.product.family \o <<")">>]
         IN [section \in (DOMAIN named) \ {"chassis", "product"} |-> named[section]]
    ELSE hw

parse_hardware(d) == LaptopOverride(ReadAll(d))

----------------------------------------------------------------------------
(* DMI directory snapshots *)

T_board == <<"Z","9","7","\n">>
T_version == <<" ","1",".","0","\n">>
T_vendor == <<"A","c","m","e"," ","I","n","c",".","\n">>
T_family == <<"T","h","i","n","k","\n">>
T_product == <<"X","1"," ","G","3","\n">>
T_blank == <<" ","\n">>

SnapshotOf(r) ==
    (<<"board", "name">> :> r.board_name)
    @@ (<<"board_vendor">> :> r.board_vendor)
    @@ (<<"board", "version">> :> r.board_version)
    @@ (<<"bios", "date">> :> r.bios_date)
    @@ (<<"bios", "release">> :> r.bios_release)
    @@ (<<"bios_vendor">> :> r.bios_vendor)
    @@ (<<"bios", "version">> :> r.bios_version)
    @@ (<<"chassis", "type">> :> r.chassis_type)
    @@ (<<"product", "family">> :> r.product_family)
    @@ (<<"product", "name">> :> r.product_name)

ChassisTexts == {Absent, <<"3","\n">>, <<"8">>, <<"9","\n">>, <<"1","0","\n">>}
DateTexts == {Absent,
              <<"0","1","/","1","5","/","2","0","2","3","\n">>,
              <<"2","/","2","9","/","2","0","2","4">>,
              <<"2","0","2","3","-","0","1","-","1","5","\n">>,
              <<"0","2","/","3","0","/","2","0","2","3","\n">>}

Snapshots ==
    {SnapshotOf(r) : r \in
        [board_name : {Absent, T_blank, T_board},
         board_vendor : {Absent, T_blank, T_vendor},
         board_version : {Absent, T_version},
         bios_date : DateTexts,
         bios_release : {Absent, T_version},
         bios_vendor : {Absent, T_vendor},
         bios_version : {T_blank, T_version},
         chassis_type : ChassisTexts,
         product_family : {Absent, T_blank, T_family},
         product_name : {Absent, T_blank, T_product}]}

----------------------------------------------------------------------------
(* parse_hardware applied to a snapshot *)

IdleLspci ==
    /\ input = NoInput
    /\ lineno = 1
    /\ devices = NewWrapper
    /\ device = EmptyDict
    /\ prior = <<>>
    /\ reparsed = FALSE

InitHw ==
    /\ pc = "hw"
    /\ dmi \in Snapshots
    /\ hardware = <<>>
    /\ args = NoArgs
    /\ ERRORS = <<>>
    /\ calls = <<>>
    /\ resp = <<>>
    /\ exitcode = -1
    /\ loaded = <<>>
    /\ lines = <<>>
    /\ IdleLspci

HwReturn ==
    /\ pc = "hw"
    /\ ~HardwareRaises(dmi)
    /\ hardware' = parse_hardware(dmi)
    /\ pc' = "hw_returned"
    /\ calls' = Append(calls, "parse_hardware")
    /\ UNCHANGED <<args, dmi, ERRORS, resp, exitcode, loaded, lines>>
    /\ UNCHANGED lspciVars

HwRaise ==
    /\ pc = "hw"
    /\ HardwareRaises(dmi)
    /\ pc' = "hw_raised"
    /\ calls' = Append(calls, "parse_hardware")
    /\ UNCHANGED <<args, dmi, ERRORS, resp, exitcode, loaded, lines, hardware>>
    /\ UNCHANGED lspciVars

NextHw == HwReturn \/ HwRaise

SpecHw == InitHw /\ [][NextHw]_vars

\* the value of a declared field after the loop, from the snapshot
Resolved(path, default) ==
    IF dmi[path] # Absent /\ Strip(dmi[path], Whitespace) # <<>>
    THEN Strip(dmi[path], Whitespace)
    ELSE default

IsLaptop == Resolved(<<"chassis", "type">>, <<>>) \in {<<"8">>, <<"9">>, <<"1","0">>}

\* a declared field holds the stripped file content or its default
FieldAsDeclared(section, key, path, default) ==
    /\ section \in DOMAIN hardware
    /\ key \in DOMAIN hardware[section]
    /\ hardware[section][key] = Resolved(path, default)

VendorAsDeclared(section, key) ==
    /\ section \in DOMAIN hardware
    /\ key \in DOMAIN hardware[section]
    /\ hardware[section][key] =
           [name |-> Resolved(<<key>>, NONE_), vendorid |-> <<>>]

BoardBiosAsDeclared ==
    /\ FieldAsDeclared("board", "version", <<"board", "version">>, UNKNOWN)
    /\ VendorAsDeclared("board", "board_vendor")
    /\ FieldAsDeclared("bios", "release", <<"bios", "release">>, <<>>)
    /\ FieldAsDeclared("bios", "version", <<"bios", "version">>, UNKNOWN)
    /\ VendorAsDeclared("bios", "bios_vendor")
    /\ "groups" \in DOMAIN hardware /\ hardware.groups = <<>>

ChassisProductAsDeclared ==
    /\ FieldAsDeclared("chassis", "type", <<"chassis", "type">>, <<>>)
    /\ FieldAsDeclared("product", "family", <<"product", "family">>, <<>>)
    /\ FieldAsDeclared("product", "name", <<"product", "name">>, <<>>)

\* the bios date as the record holds it: YYYY-MM-DD of the file's MM/DD/YYYY
DateAsDeclared ==
    LET raw == Resolved(<<"bios", "date">>, <<>>)
        p == SplitAll(raw, "/")
    IN /\ "date" \in DOMAIN hardware.bios
       /\ IF raw = <<>> THEN hardware.bios.date = <<>>
          ELSE /\ Len(hardware.bios.date) = 10
               /\ SubSeq(hardware.bios.date, 1, 4) = p[3]
               /\ Number(SubSeq(hardware.bios.date, 6, 7)) = Number(p[1])
               /\ Number(SubSeq(hardware.bios.date, 9, 10)) = Number(p[2])
               /\ hardware.bios.date[5] = "-" /\ hardware.bios.date[8] = "-"

\* C8: for every snapshot whose files are absent, empty or valid, the record
\* returned by parse_hardware holds every declared section and every declared
\* field, each with the stripped file content (bios.date in its YYYY-MM-DD
\* form) or the default placeholder.
C8_AllKeysAsClaimed ==
    (pc = "hw_returned") =>
        /\ BoardBiosAsDeclared
        /\ ChassisProductAsDeclared
        /\ FieldAsDeclared("board", "name", <<"board", "name">>, UNKNOWN)
        /\ DateAsDeclared

\* C8 as amended: board, bios and groups are always present with every
\* declared field; chassis and product are present, with every field, unless
\* chassis.type is 8, 9 or 10, and are absent then; each field holds the
\* stripped content or its default, the date rewritten as YYYY-MM-DD, and
\* board.name the product label when chassis.type is 8, 9 or 10.
C8_AllKeysAmended ==
    (pc = "hw_returned") =>
        /\ BoardBiosAsDeclared
        /\ DateAsDeclared
        /\ "name" \in DOMAIN hardware.board
        /\ IF IsLaptop
           THEN DOMAIN hardware = {"board", "bios", "groups"}
           ELSE /\ DOMAIN hardware = {"board", "bios", "chassis", "product", "groups"}
                /\ ChassisProductAsDeclared
                /\ FieldAsDeclared("board", "name", <<"board", "name">>, UNKNOWN)

C8_Witness ==
    /\ pc = "hw_returned"
    /\ dmi[<<"board", "version">>] = Absent
    /\ dmi[<<"bios", "version">>] = T_blank
    /\ dmi[<<"bios", "date">>] # Absent
    /\ hardware.board.version = UNKNOWN
    /\ hardware.bios.version = UNKNOWN
    /\ "chassis" \in DOMAIN hardware

\* C9: when the resolved chassis.type is 8, 9 or 10 the returned record has
\* board.name = "{product.name} ({product.family})" from the resolved
\* product fields and no chassis and no product key; for every other type
\* board.name is the value read from board_name (or its default) and both
\* sections are kept.
C9_ChassisOverride ==
    (pc = "hw_returned") =>
        IF IsLaptop
        THEN /\ hardware.board.name =
                    Resolved(<<"product", "name">>, <<>>) \o <<" ", "(">>
                        \o Resolved(<<"product", "family">>, <<>>) \o <<")">>
             /\ "chassis" \notin DOMAIN hardware
             /\ "product" \notin DOMAIN hardware
        ELSE /\ hardware.board.name = Resolved(<<"board", "name">>, UNKNOWN)
             /\ "chassis" \in DOMAIN hardware
             /\ "product" \in DOMAIN hardware

C9_Witness ==
    /\ pc = "hw_returned"
    /\ dmi[<<"chassis", "type">>] = <<"1","0","\n">>
    /\ hardware.board.name = <<"X","1"," ","G","3"," ","(","T","h","i","n","k",")">>
    /\ DOMAIN hardware = {"board", "bios", "groups"}

----------------------------------------------------------------------------
(* _errors, _exit and lookup_vendor *)

NoFile == <<"<no file>">>

\* _errors(problem, file, data): the problem, then the additional text if any
Errors(errs, d, problem, file, data) ==
    LET fromData == IF data # <<>> THEN <<[text |-> data]>> ELSE <<>>
        additional ==
            IF file # NoFile /\ IsFile(d, file)
            THEN <<[cat |-> file, filedata |-> Strip(d[file], Whitespace)]>>
            ELSE fromData
    IN Append(errs, problem) \o additional

\* the status _exit hands to sys.exit
ExitCodeZero(errs) == 0
ExitCode(errs) == IF errs # <<>> THEN 1 ELSE 0

\* what the vendor endpoint can answer to the GET
LookupResponses == {"match", "zero", "http_error", "http_error_html", "unreachable"}
\* what the submission endpoint can answer to the POST
PostResponses == {"accepted", "accepted_html", "rejected", "rejected_empty",
                  "unreachable"}

\* r.json().get("results")[0] of the catalog
CatalogFirst(name) == [name |-> name, vendorid |-> <<"8","0","8","6">>]

\* /sys/devices/virtual/dmi/id/{lookup_type}_vendor
VendorFile(lookup_type) ==
    IF lookup_type = "board" THEN <<"board_vendor">> ELSE <<"bios_vendor">>

\* lookup_vendor(vendor_name, lookup_type) when the endpoint answers r
lookup_vendor(r, vendor_name, lookup_type, d, errs) ==
    CASE r = "unreachable" ->          \* requests.get raises
            [vendor |-> EmptyDict, errors |-> errs, raised |-> TRUE]
      [] r = "http_error_html" ->      \* r.json() raises on the error body
            [vendor |-> EmptyDict, errors |-> errs, raised |-> TRUE]
      [] r = "match" ->
            [vendor |-> CatalogFirst(vendor_name), errors |-> errs,
             raised |-> FALSE]
      [] r = "zero" ->
            [vendor |-> EmptyDict,
             errors |-> Errors(errs, d,
                               [problem |-> "failed to retrieve vendorid",
                                lookup_type |-> lookup_type, name |-> vendor_name],
                               VendorFile(lookup_type), <<>>),
             raised |-> FALSE]
      [] r = "http_error" ->
            [vendor |-> EmptyDict,
             errors |-> Errors(errs, d,
                               [problem |-> "Failed to retrieve vendor",
                                lookup_type |-> lookup_type, name |-> vendor_name],
                               NoFile, <<>>),
             raised |-> FALSE]

----------------------------------------------------------------------------
(* main *)

\* after the hardware record is obtained main always looks the vendors up
NextAfterLoadSkipping(a) == IF a.data THEN "parse" ELSE "lookup_board"
NextAfterLoad(a) == "lookup_board"

\* "if args.dry_run: pprint; _exit()", else the POST
NextAfterPersistPosting(a) == "post"
NextAfterPersist(a) == IF a.dry_run THEN "dry_run" ELSE "post"

DmiEmpty ==
    SnapshotOf([board_name |-> Absent, board_vendor |-> Absent,
                board_version |-> Absent, bios_date |-> Absent,
                bios_release |-> Absent, bios_vendor |-> Absent,
                bios_version |-> Absent, chassis_type |-> Absent,
                product_family |-> Absent, product_name |-> Absent])
DmiDesktop ==
    SnapshotOf([board_name |-> T_board, board_vendor |-> T_vendor,
                board_version |-> T_version,
                bios_date |-> <<"0","1","/","1","5","/","2","0","2","3","\n">>,
                bios_release |-> T_version, bios_vendor |-> T_vendor,
                bios_version |-> T_version, chassis_type |-> <<"3","\n">>,
                product_family |-> T_blank, product_name |-> T_blank])
DmiLaptop ==
    [DmiDesktop EXCEPT ![<<"chassis", "type">>] = <<"1","0","\n">>,
                       ![<<"product", "family">>] = T_family,
                       ![<<"product", "name">>] = T_product]
DmiBadDate ==
    [DmiDesktop EXCEPT ![<<"bios", "date">>] =
                           <<"2","0","2","3","-","0","1","-","1","5","\n">>]

MainSnapshots == {DmiEmpty, DmiDesktop, DmiLaptop, DmiBadDate}

MainTexts == {<<L_slot, L_blank>>,
              <<L_group4, L_vendor, L_blank, L_group4, L_slot, L_blank>>,
              <<L_noise>>}

\* a document for --data: a record as a former run assembled it
DocVendor == [name |-> <<"A","c","m","e">>, vendorid |-> <<"1","2","3","4">>]
DocFresh ==
    [parse_hardware(DmiDesktop) EXCEPT !.board.board_vendor = DocVendor,
                                       !.bios.bios_vendor = DocVendor]
DocParsed ==
    [DocFresh EXCEPT !.groups =
        parse_lspci_output(<<L_slot, L_blank>>, [groups |-> <<>>]).groups]
Documents == {DocFresh, DocParsed}

InitMain ==
    /\ pc = "main"
    /\ args \in [data : BOOLEAN, file : BOOLEAN, dry_run : BOOLEAN]
    /\ dmi \in MainSnapshots
    /\ hardware = <<>>
    /\ loaded = <<>>
    /\ ERRORS = <<>>
    /\ calls = <<>>
    /\ resp = <<>>
    /\ exitcode = -1
    /\ lines = <<>>
    /\ IdleLspci

\* hardware = parse_hardware()
MainParseHardware ==
    /\ pc = "main"
    /\ ~args.data
    /\ ~HardwareRaises(dmi)
    /\ hardware' = parse_hardware(dmi)
    /\ loaded' = hardware'
    /\ calls' = Append(calls, "parse_hardware")
    /\ pc' = NextAfterLoad(args)
    /\ UNCHANGED <<args, dmi, ERRORS, resp, exitcode, lines>>
    /\ UNCHANGED lspciVars

\* parse_hardware() raises on a malformed date
MainHardwareRaises ==
    /\ pc = "main"
    /\ ~args.data
    /\ HardwareRaises(dmi)
    /\ calls' = Append(calls, "parse_hardware")
    /\ pc' = "crashed_hardware"
    /\ UNCHANGED <<args, dmi, ERRORS, resp, exitcode, lines, hardware, loaded>>
    /\ UNCHANGED lspciVars

\* hardware = json.loads(fh.read())
MainLoadData ==
    /\ pc = "main"
    /\ args.data
    /\ \E doc \in Documents :
        /\ hardware' = doc
        /\ loaded' = doc
    /\ calls' = Append(calls, "open_data")
    /\ pc' = NextAfterLoad(args)
    /\ UNCHANGED <<args, dmi, ERRORS, resp, exitcode, lines>>
    /\ UNCHANGED lspciVars

\* hardware["board"]["board_vendor"] = lookup_vendor(board_vendor, "board")
LookupBoard ==
    /\ pc = "lookup_board"
    /\ \E r \in LookupResponses :
        LET out == lookup_vendor(r, hardware.board.board_vendor.name, "board",
                                 dmi, ERRORS)
        IN /\ resp' = Append(resp, r)
           /\ ERRORS' = out.errors
           /\ hardware' = IF out.raised THEN hardware
                          ELSE [hardware EXCEPT !.board.board_vendor = out.vendor]
           /\ pc' = IF out.raised THEN "crashed_lookup" ELSE "lookup_bios"
    /\ calls' = Append(calls, "GET")
    /\ UNCHANGED <<args, dmi, exitcode, lines, loaded>>
    /\ UNCHANGED lspciVars

\* hardware["bios"]["bios_vendor"] = lookup_vendor(bios_vendor, "bios")
LookupBios ==
    /\ pc = "lookup_bios"
    /\ \E r \in LookupResponses :
        LET out == lookup_vendor(r, loaded.bios.bios_vendor.name, "bios",
                                 dmi, ERRORS)
        IN /\ resp' = Append(resp, r)
           /\ ERRORS' = out.errors
           /\ hardware' = IF out.raised THEN hardware
                          ELSE [hardware EXCEPT !.bios.bios_vendor = out.vendor]
           /\ pc' = IF out.raised THEN "crashed_lookup" ELSE "parse"
    /\ calls' = Append(calls, "GET")
    /\ UNCHANGED <<args, dmi, exitcode, lines, loaded>>
    /\ UNCHANGED lspciVars

\* output = parse_lspci_output(<lspci -nnvmm or the --file text>, hardware)
MainParseLspci ==
    /\ pc = "parse"
    /\ \E text \in MainTexts, available \in BOOLEAN :
        LET st == parse_lspci_output(text, hardware)
        IN /\ lines' = IF available THEN text ELSE lines
           /\ hardware' = IF available /\ ~st.raised
                          THEN [hardware EXCEPT !.groups = st.groups]
                          ELSE hardware
           /\ pc' = IF available /\ ~st.raised THEN "persist" ELSE "crashed_parse"
    /\ calls' = Append(calls, IF args.file THEN "open_file" ELSE "lspci")
    /\ UNCHANGED <<args, dmi, ERRORS, resp, exitcode, loaded>>
    /\ UNCHANGED lspciVars

\* with DATAFILE as local_data: local_data.write(str(output))
Persist ==
    /\ pc = "persist"
    /\ calls' = Append(calls, "write_datafile")
    /\ pc' = NextAfterPersist(args)
    /\ UNCHANGED <<args, dmi, ERRORS, resp, exitcode, lines, hardware, loaded>>
    /\ UNCHANGED lspciVars

\* pprint.pprint(output), then _exit()
DryRun ==
    /\ pc = "dry_run"
    /\ calls' = Append(calls, "pprint")
    /\ pc' = "exit"
    /\ UNCHANGED <<args, dmi, ERRORS, resp, exitcode, lines, hardware, loaded>>
    /\ UNCHANGED lspciVars

\* r = requests.post(...) and the branch on r.ok
Post ==
    /\ pc = "post"
    /\ \E r \in PostResponses :
        /\ resp' = Append(resp, r)
        /\ ERRORS' =
              IF r = "rejected"
              THEN Errors(ERRORS, dmi, [problem |-> "API request error"],
                          NoFile, <<"b","o","d","y">>)
              ELSE IF r = "rejected_empty"
              THEN Errors(ERRORS, dmi, [problem |-> "API request error"],
                          NoFile, <<>>)
              ELSE ERRORS
        /\ pc' = IF r \in {"unreachable", "accepted_html"}
                 THEN "crashed_post" ELSE "exit"
    /\ calls' = Append(calls, "POST")
    /\ UNCHANGED <<args, dmi, exitcode, lines, hardware, loaded>>
    /\ UNCHANGED lspciVars

\* _exit()
Exit ==
    /\ pc = "exit"
    /\ exitcode' = ExitCode(ERRORS)
    /\ calls' = IF ERRORS # <<>> THEN Append(calls, "report") ELSE calls
    /\ pc' = "exited"
    /\ UNCHANGED <<args, dmi, ERRORS, resp, lines, hardware, loaded>>
    /\ UNCHANGED lspciVars

Next ==
    \/ MainParseHardware
    \/ MainHardwareRaises
    \/ MainLoadData
    \/ LookupBoard
    \/ LookupBios
    \/ MainParseLspci
    \/ Persist
    \/ DryRun
    \/ Post
    \/ Exit

Spec == InitMain /\ [][Next]_vars

----------------------------------------------------------------------------
(* Claims about main *)

Count(x, seq) == Cardinality({i \in DOMAIN seq : seq[i] = x})
FailedLookups == {"zero", "http_error", "http_error_html", "unreachable"}
RecordedLookups == {"zero", "http_error"}
AfterLookups == {"parse", "persist", "dry_run", "post", "exit", "exited",
                 "crashed_parse", "crashed_post"}
VendorIdOf(rec) == IF "vendorid" \in DOMAIN rec THEN rec.vendorid ELSE <<>>

\* C4: for each of the two lookup_vendor calls, when the catalog returns no
\* match or the request fails, an error is appended to ERRORS, the vendor
\* record of the payload has an empty vendorid, and the run goes on to the
\* PCI parse and the submission step instead of stopping in the lookup.
C4_LookupNeverAborts ==
    /\ (Len(resp) >= 1 /\ resp[1] \in FailedLookups) =>
           /\ ~(pc = "crashed_lookup" /\ Len(resp) = 1)
           /\ ERRORS # <<>>
           /\ VendorIdOf(hardware.board.board_vendor) = <<>>
    /\ (Len(resp) >= 2 /\ resp[2] \in FailedLookups) =>
           /\ pc # "crashed_lookup"
           /\ \E i \in DOMAIN ERRORS :
                  /\ "lookup_type" \in DOMAIN ERRORS[i]
                  /\ ERRORS[i].lookup_type = "bios"
           /\ VendorIdOf(hardware.bios.bios_vendor) = <<>>

PostSucceeded == Len(resp) = 3 /\ resp[3] = "accepted"
LookupErrorRecorded == \E i \in 1..2 : i <= Len(resp) /\ resp[i] \in RecordedLookups
PostErrorRecorded == Len(resp) = 3 /\ resp[3] \in {"rejected", "rejected_empty"}

\* C5: for every run that reaches _exit the code is 0 when the submission
\* succeeded or the run was a dry run, and non-zero when any reportable error
\* was recorded in ERRORS during the run.
C5_ExitCodeAsClaimed ==
    (pc = "exited") =>
        /\ (PostSucceeded \/ args.dry_run) => exitcode = 0
        /\ (ERRORS # <<>>) => exitcode # 0

\* C5 as amended: for every run that reaches _exit the code is 1 when any
\* reportable error (vendor-lookup miss or failure, submission HTTP failure)
\* was recorded in ERRORS during the run, also when the submission succeeded
\* or the run was a dry run, and 0 otherwise.
C5_ExitCodeAmended ==
    (pc = "exited") =>
        /\ (LookupErrorRecorded \/ PostErrorRecorded) <=> (ERRORS # <<>>)
        /\ (LookupErrorRecorded \/ PostErrorRecorded) => exitcode = 1
        /\ ~(LookupErrorRecorded \/ PostErrorRecorded) => exitcode = 0
        /\ ((PostSucceeded \/ args.dry_run) /\ ~LookupErrorRecorded) => exitcode = 0

C5_Witness ==
    /\ pc = "exited"
    /\ args.dry_run
    /\ LookupErrorRecorded
    /\ exitcode = 1

\* C6: the POST is performed at most once in a run (a failed POST is not
\* retried), only after both vendor lookups and the PCI parse have completed,
\* and never in a dry run, which prints the record and exits instead.
C6_SubmissionCount ==
    /\ Count("POST", calls) <= 1
    /\ \A i \in DOMAIN calls :
           (calls[i] = "POST") =>
               /\ Count("GET", SubSeq(calls, 1, i - 1)) = 2
               /\ \E j \in 1..(i - 1) : calls[j] \in {"lspci", "open_file"}
               /\ lines # <<>>
               /\ ~args.dry_run
    /\ (args.dry_run /\ pc = "exited") =>
           /\ Count("POST", calls) = 0
           /\ Count("pprint", calls) = 1

C6_Witness ==
    /\ pc = "exited"
    /\ PostErrorRecorded
    /\ Count("POST", calls) = 1

\* C7: when --data supplies the hardware document main performs neither the
\* sysfs reads of parse_hardware nor any vendor-lookup GET, and the board and
\* bios vendor records of the document reach the payload unchanged.
C7_DataBypassAsClaimed ==
    args.data =>
        /\ Count("parse_hardware", calls) = 0
        /\ Count("GET", calls) = 0
        /\ (pc \in AfterLookups) =>
               /\ hardware.board.board_vendor = loaded.board.board_vendor
               /\ hardware.bios.bios_vendor = loaded.bios.bios_vendor

\* the record lookup i leaves in the payload: the catalog's first result for
\* the document's vendor name, or the empty record
LookupOutcome(i, name) ==
    IF resp[i] = "match" THEN [name |-> name, vendorid |-> <<"8","0","8","6">>]
    ELSE <<>>

\* C7 as amended: when --data supplies the hardware document main does not
\* perform the sysfs reads of parse_hardware, but it still sends the
\* vendor-lookup GETs for the document's vendor names (both, in every run that
\* gets past the lookups), and the board and bios vendor records of the
\* payload are the lookup results, not the document's.
C7_DataStillLooksUp ==
    args.data =>
        /\ Count("parse_hardware", calls) = 0
        /\ (pc \notin {"main", "lookup_board"}) => Count("GET", calls) >= 1
        /\ (pc \in AfterLookups) =>
               /\ Count("GET", calls) = 2
               /\ hardware.board.board_vendor =
                      LookupOutcome(1, loaded.board.board_vendor.name)
               /\ hardware.bios.bios_vendor =
                      LookupOutcome(2, loaded.bios.bios_vendor.name)

C7_Witness ==
    /\ args.data
    /\ pc = "exited"
    /\ Count("GET", calls) = 2
    /\ hardware.board.board_vendor = <<>>
    /\ hardware.bios.bios_vendor # loaded.bios.bios_vendor
    /\ hardware.bios.bios_vendor # <<>>

====
